---- MODULE Spec2Model ----
(***************************************************************************)
(* Model of src/app.py: the Nessus CSV -> DOCX report pipeline.            *)
(*                                                                         *)
(* Strings are sequences of one-character strings, so that str.upper,      *)
(* str.lower, str.capitalize and str.replace are modelled by what they do. *)
(* A pandas missing value (float nan) is the one-element sequence NaN,     *)
(* whose element is not a character, so it differs from every string.      *)
(* The document is the sequence of elements appended after the template.   *)
(***************************************************************************)
EXTENDS Integers, Sequences, FiniteSets, TLC

\* ------------------------------------------------------------------ bounds
MaxRows == 2

\* ----------------------------------------------------------------- strings
NaN == <<"NaN">>

LowerLetters == <<"a","c","d","e","f","g","h","i","l","m","n","o","r","t","u","w">>
UpperLetters == <<"A","C","D","E","F","G","H","I","L","M","N","O","R","T","U","W">>

UpperChar(c) ==
    IF \E i \in DOMAIN LowerLetters : LowerLetters[i] = c
    THEN UpperLetters[CHOOSE i \in DOMAIN LowerLetters : LowerLetters[i] = c]
    ELSE c

LowerChar(c) ==
    IF \E i \in DOMAIN UpperLetters : UpperLetters[i] = c
    THEN LowerLetters[CHOOSE i \in DOMAIN UpperLetters : UpperLetters[i] = c]
    ELSE c

\* str.upper()
Upper(s) == [i \in 1..Len(s) |-> UpperChar(s[i])]

\* str.lower()
Lower(s) == [i \in 1..Len(s) |-> LowerChar(s[i])]

\* str.capitalize()
Capitalize(s) == [i \in 1..Len(s) |-> IF i = 1 THEN UpperChar(s[i]) ELSE LowerChar(s[i])]

\* host.replace('.', '_')
ReplaceDots(s) == [i \in 1..Len(s) |-> IF s[i] = "." THEN "_" ELSE s[i]]

CRITICAL == <<"C","R","I","T","I","C","A","L">>
HIGH     == <<"H","I","G","H">>
MEDIUM   == <<"M","E","D","I","U","M">>
LOW      == <<"L","O","W">>
none     == <<"n","o","n","e">>

\* severity_order = ['CRITICAL', 'MEDIUM', 'LOW']; also the reindex categories
severity_order == <<CRITICAL, MEDIUM, LOW>>

\* --------------------------------------------------------------- the input
\* Cells of the DataFrame that pd.read_csv returns: a string, or NaN for an
\* empty cell.
RawRisks ==
    { <<"C","r","i","t","i","c","a","l">>,
      <<"H","i","g","h">>,
      <<"M","e","d","i","u","m">>,
      <<"L","o","w">>,
      <<"N","o","n","e">>,
      <<"I","n","f","o">> }

Hosts == { <<"h",".","1">>, <<"h","_","1">> }

Txt == <<"t","x","t">>

Fields == {"Host", "Name", "Description", "Solution"}

FullRows == [Host : Hosts, Risk : RawRisks \cup {NaN}, Name : {Txt},
             Description : {Txt}, Solution : {Txt}]

NoHole == <<0, "-">>

\* The table base with the cell named by hole emptied.
Punch(base, hole) ==
    [i \in DOMAIN base |->
        [f \in DOMAIN base[i] |->
            IF hole = <<i, f>> THEN NaN ELSE base[i][f]]]

\* The frames read_csv can return: up to MaxRows rows, any Risk cell empty,
\* and at most one empty cell among the other columns (the first one the
\* run meets decides where it stops).
IsFrame(t) ==
    \E n \in 0..MaxRows :
        \E base \in [1..n -> FullRows] :
            \E hole \in ((1..n) \X Fields) \cup {NoHole} :
                t = Punch(base, hole)

\* ------------------------------------------------------------- normalizer
\* df[df['Risk'].notna()]
DropNa(d) == SelectSeq(d, LAMBDA r : r.Risk # NaN)

\* Mutant of DropNone: compares without lowering.
DropNoneCaseSensitive(d) == SelectSeq(d, LAMBDA r : r.Risk # none)

\* df[~df['Risk'].str.lower().eq('none')]
DropNone(d) == SelectSeq(d, LAMBDA r : Lower(r.Risk) # none)

\* Mutant of NormalizedRisk: replaces before uppercasing.
NormalizedRiskReplaceFirst(risk) == IF risk = HIGH THEN CRITICAL ELSE Upper(risk)

\* df['Risk'].str.upper().replace({'HIGH': 'CRITICAL'})
NormalizedRisk(risk) == IF Upper(risk) = HIGH THEN CRITICAL ELSE Upper(risk)

\* The frame read_csv returns, each row with its index label.
Indexed(d) == [i \in DOMAIN d |-> [idx |-> i, Host |-> d[i].Host, Risk |-> d[i].Risk,
                                   Name |-> d[i].Name, Description |-> d[i].Description,
                                   Solution |-> d[i].Solution]]

\* lines 82-86: the five kept columns, NormalizedRisk renamed to Risk
NormalizedFrame(d) ==
    LET kept == DropNone(DropNa(Indexed(d)))
    IN  [i \in DOMAIN kept |-> [kept[i] EXCEPT !.Risk = NormalizedRisk(@)]]

\* line 83: a Risk column with rows but no string in it is read as float64,
\* and its .str accessor raises AttributeError.
StrAccessorRaises(d) == d # <<>> /\ \A i \in DOMAIN d : d[i].Risk = NaN

\* ---------------------------------------------------------------- grouper
\* An insertion-ordered dict is a sequence of [key, val] entries.
HasKey(dict, k) == \E i \in DOMAIN dict : dict[i].key = k

KeyIndex(dict, k) == CHOOSE i \in DOMAIN dict : dict[i].key = k

Get(dict, k) == dict[KeyIndex(dict, k)].val

\* defaultdict lookup: the default value for a missing key
GetOrDefault(dict, k, default) == IF HasKey(dict, k) THEN Get(dict, k) ELSE default

\* The dict with the value of k set; a missing key is inserted last.
SetKey(dict, k, v) ==
    IF HasKey(dict, k)
    THEN [dict EXCEPT ![KeyIndex(dict, k)].val = v]
    ELSE Append(dict, [key |-> k, val |-> v])

\* lines 90-95: the dict appended for one row; idx records the row it is from
Vuln(row) == [title |-> row.Name, description |-> row.Description,
              solution |-> row.Solution, risk |-> row.Risk, idx |-> row.idx]

\* Mutant of AppendVuln: inserts at the front of the bucket.
PrependVuln(vulns, row) == <<Vuln(row)>> \o vulns

AppendVuln(vulns, row) == Append(vulns, Vuln(row))

GroupRow(g, row) ==
    LET sevs == GetOrDefault(g, row.Host, <<>>)
        vulns == GetOrDefault(sevs, row.Risk, <<>>)
    IN  SetKey(g, row.Host, SetKey(sevs, row.Risk, AppendVuln(vulns, row)))

RECURSIVE GroupRows(_, _)
GroupRows(g, d) ==
    IF d = <<>> THEN g ELSE GroupRows(GroupRow(g, Head(d)), Tail(d))

\* ------------------------------------------------------- document elements
PageBreak == [kind |-> "page_break"]

\* doc.add_paragraph(text, style=...); num is the numbering an f-string
\* puts in front of the text.
Paragraph(style, num, text) == [kind |-> "paragraph", style |-> style, num |-> num, text |-> text]

\* get_severity_color
get_severity_color(severity) ==
    LET sev == Upper(severity)
    IN  IF sev \in {CRITICAL, HIGH} THEN "FF0000"
        ELSE IF sev = MEDIUM THEN "FFA500"
        ELSE IF sev = LOW THEN "FFFF00"
        ELSE "D3D3D3"

\* df['Risk'].value_counts().reindex(['CRITICAL', 'MEDIUM', 'LOW'], fill_value=0)
severity_counts(d) ==
    [k \in DOMAIN severity_order |->
        Cardinality({i \in DOMAIN d : d[i].Risk = severity_order[k]})]

\* The embedded chart: its bar data; scope and n record the frame it was
\* drawn from (which host, how many rows).
Picture(chart_name, title, d, scope) ==
    [kind |-> "picture", name |-> chart_name, title |-> title,
     counts |-> severity_counts(d), scope |-> scope, n |-> Len(d)]

DefaultChartName == <<"severity_chart.png">>
DefaultChartTitle == <<"Vulnerabilities by Severity">>
GlobalScope == <<"*">>

\* add_severity_chart, document side: add_picture either embeds the image
\* or raises.
ChartDoc(d0, chart_name, title, d, scope, ok) ==
    IF ok THEN Append(d0, Picture(chart_name, title, d, scope)) ELSE d0

\* add_severity_chart, file side: savefig creates the file, os.remove runs
\* only when add_picture returned.
ChartFiles(fs, chart_name, ok) ==
    IF ok THEN (fs \cup {chart_name}) \ {chart_name} ELSE fs \cup {chart_name}

\* df[df['Host'] == host]; nan == nan is False
HostFrame(d, host) ==
    IF host = NaN THEN <<>> ELSE SelectSeq(d, LAMBDA r : r.Host = host)

\* f"{host.replace('.', '_')}_chart.png"
ChartFile(host) == ReplaceDots(host) \o <<"_chart.png">>

ChartTitle(host) == host \o <<" - Vulnerabilities by Severity">>

\* The texts the five cells of a finding table receive, in the order they
\* are written (lines 142-163).
BlockCells(vuln) ==
    << vuln.title,
       <<"Risk: ">> \o vuln.risk,
       <<"Description:">> \o vuln.description,
       <<"Impact:", "Impact information not available.">>,
       <<"Remediation:">> \o vuln.solution >>

\* Run text is written character by character, which raises TypeError for
\* a float: the first cell whose text is nan, 0 when there is none.
FirstRaisingCell(vuln) ==
    IF vuln.title = NaN THEN 1
    ELSE IF vuln.description = NaN THEN 3
    ELSE IF vuln.solution = NaN THEN 5
    ELSE 0

\* doc.add_table(rows=5, cols=1) and the cells filled before any raise
Table(vuln) ==
    [kind |-> "table", idx |-> vuln.idx, color |-> get_severity_color(vuln.risk),
     cells |-> IF FirstRaisingCell(vuln) = 0 THEN BlockCells(vuln)
               ELSE SubSeq(BlockCells(vuln), 1, FirstRaisingCell(vuln) - 1)]

NoFile == [exists |-> FALSE, content |-> <<>>]

\* ------------------------------------------------------------------- state
VARIABLES csv, df, grouped, logged, doc, files, output, pc, hi, si, vi,
          host_count, error, run, prev

vars == <<csv, df, grouped, logged, doc, files, output, pc, hi, si, vi,
          host_count, error, run, prev>>

Reverse(s) == [i \in 1..Len(s) |-> s[Len(s) + 1 - i]]

\* Mutant of HostItems: iterates the hosts last-inserted first.
HostItemsReversed(g) == Reverse(g)

\* Mutant of HostItems: an iteration order that changes from run to run,
\* as that of a set of strings does.
HostItemsByRun(g) == IF run = 2 THEN Reverse(g) ELSE g

\* grouped.items(): insertion order
HostItems(g) == g

Init ==
    /\ IsFrame(csv)
    /\ df = <<>>
    /\ grouped = <<>>
    /\ logged = -1
    /\ doc = <<>>
    /\ files = {}
    /\ output = NoFile
    /\ pc = "normalize"
    /\ hi = 0 /\ si = 0 /\ vi = 0
    /\ host_count = 0
    /\ error = ""
    /\ run = 1
    /\ prev = NoFile

Raise(e) == pc' = "aborted" /\ error' = e

\* lines 79-86
Normalize ==
    /\ pc = "normalize"
    /\ IF StrAccessorRaises(csv)
       THEN Raise("AttributeError") /\ df' = df
       ELSE df' = NormalizedFrame(csv) /\ pc' = "group" /\ error' = error
    /\ UNCHANGED <<csv, grouped, logged, doc, files, output, hi, si, vi,
                   host_count, run, prev>>

\* lines 88-96
Group ==
    /\ pc = "group"
    /\ grouped' = GroupRows(<<>>, df)
    /\ logged' = Len(df)
    /\ pc' = "statistics"
    /\ UNCHANGED <<csv, df, doc, files, output, hi, si, vi, host_count, error,
                   run, prev>>

\* lines 98-104
Statistics ==
    /\ pc = "statistics"
    /\ \E ok \in BOOLEAN :
        LET d0 == <<PageBreak, Paragraph("Heading 1", <<1>>, <<"Statistics">>)>>
            d1 == ChartDoc(d0, DefaultChartName, DefaultChartTitle, df, GlobalScope, ok)
        IN  /\ files' = ChartFiles(files, DefaultChartName, ok)
            /\ IF ok
               THEN /\ doc' = d1 \o <<Paragraph("Normal", <<>>, <<"\n">>), PageBreak>>
                    /\ pc' = "summary" /\ error' = error
               ELSE doc' = d1 /\ Raise("EmbedError")
    /\ UNCHANGED <<csv, df, grouped, logged, output, hi, si, vi, host_count,
                   run, prev>>

\* lines 106-115
Summary ==
    /\ pc = "summary"
    /\ doc' = doc \o << Paragraph("Heading 1", <<2>>, <<"Executive Summary">>),
                        Paragraph("Normal", <<>>, <<"Add executive summary here...\n">>),
                        PageBreak,
                        Paragraph("Heading 1", <<3>>, <<"Vulnerabilities and Remediations">>) >>
    /\ host_count' = 0
    /\ hi' = 1
    /\ pc' = IF HostItems(grouped) = <<>> THEN "save" ELSE "host"
    /\ UNCHANGED <<csv, df, grouped, logged, files, output, si, vi, error,
                   run, prev>>

\* lines 115-122
Host ==
    /\ pc = "host"
    /\ LET host == HostItems(grouped)[hi].key
           d0 == Append(doc, Paragraph("Heading 2", <<3, host_count + 1>>, host))
       IN  /\ host_count' = host_count + 1
           /\ IF host = NaN
              THEN doc' = d0 /\ Raise("AttributeError") /\ UNCHANGED <<files, si>>
              ELSE \E ok \in BOOLEAN :
                    /\ doc' = ChartDoc(d0, ChartFile(host), ChartTitle(host),
                                       HostFrame(df, host), host, ok)
                    /\ files' = ChartFiles(files, ChartFile(host), ok)
                    /\ IF ok
                       THEN pc' = "severity" /\ si' = 1 /\ error' = error
                       ELSE Raise("EmbedError") /\ si' = si
    /\ UNCHANGED <<csv, df, grouped, logged, output, hi, vi, run, prev>>

severities == HostItems(grouped)[hi].val

\* lines 125-127: continue
SeveritySkip ==
    /\ pc = "severity"
    /\ si <= Len(severity_order)
    /\ ~HasKey(severities, severity_order[si])
    /\ si' = si + 1
    /\ UNCHANGED <<csv, df, grouped, logged, doc, files, output, pc, hi, vi,
                   host_count, error, run, prev>>

\* lines 125-131
SeverityHeading ==
    /\ pc = "severity"
    /\ si <= Len(severity_order)
    /\ HasKey(severities, severity_order[si])
    /\ doc' = Append(doc, Paragraph("Heading 3", <<3, host_count, si>>,
                                    Capitalize(severity_order[si]) \o <<" Vulnerabilities">>))
    /\ vi' = 1
    /\ pc' = "vuln"
    /\ UNCHANGED <<csv, df, grouped, logged, files, output, hi, si, host_count,
                   error, run, prev>>

\* lines 133-165
Finding ==
    /\ pc = "vuln"
    /\ LET vulns == Get(severities, severity_order[si])
           vuln == vulns[vi]
           d0 == doc \o << Paragraph("Heading 4", <<3, host_count, si, vi>>, vuln.title),
                           Table(vuln) >>
       IN  IF FirstRaisingCell(vuln) # 0
           THEN doc' = d0 /\ Raise("TypeError") /\ UNCHANGED <<si, vi>>
           ELSE /\ doc' = Append(d0, PageBreak)
                /\ error' = error
                /\ IF vi < Len(vulns)
                   THEN vi' = vi + 1 /\ UNCHANGED <<pc, si>>
                   ELSE pc' = "severity" /\ si' = si + 1 /\ vi' = vi
    /\ UNCHANGED <<csv, df, grouped, logged, files, output, hi, host_count,
                   run, prev>>

\* line 115: the severity loop of one host is over
HostDone ==
    /\ pc = "severity"
    /\ si > Len(severity_order)
    /\ IF hi < Len(HostItems(grouped))
       THEN hi' = hi + 1 /\ pc' = "host"
       ELSE hi' = hi /\ pc' = "save"
    /\ UNCHANGED <<csv, df, grouped, logged, doc, files, output, si, vi,
                   host_count, error, run, prev>>

\* lines 167-168
Save ==
    /\ pc = "save"
    /\ output' = [exists |-> TRUE, content |-> doc]
    /\ pc' = "done"
    /\ UNCHANGED <<csv, df, grouped, logged, doc, files, hi, si, vi,
                   host_count, error, run, prev>>

Next ==
    \/ Normalize
    \/ Group
    \/ Statistics
    \/ Summary
    \/ Host
    \/ SeveritySkip
    \/ SeverityHeading
    \/ Finding
    \/ HostDone
    \/ Save

Spec == Init /\ [][Next]_vars

\* A second run of the program on the same csv and template; the files on
\* disk (chart files left behind, the output file) stay as the first run
\* left them, and prev keeps what the first run saved.
Rerun ==
    /\ run = 1
    /\ pc \in {"done", "aborted"}
    /\ run' = 2
    /\ prev' = IF pc = "done" THEN output ELSE NoFile
    /\ df' = <<>> /\ grouped' = <<>> /\ logged' = -1 /\ doc' = <<>>
    /\ pc' = "normalize"
    /\ hi' = 0 /\ si' = 0 /\ vi' = 0 /\ host_count' = 0
    /\ error' = ""
    /\ UNCHANGED <<csv, files, output>>

NextTwice == Next \/ Rerun

\* The two-run specification starts from the frames with no empty cell
\* outside the Risk column: any other run saves no document to compare.
InitTwice == Init /\ \A i \in DOMAIN csv : \A f \in Fields : csv[i][f] # NaN

SpecTwice == InitTwice /\ [][NextTwice]_vars

TypeOK ==
    /\ pc \in {"normalize", "group", "statistics", "summary", "host", "severity",
               "vuln", "save", "done", "aborted"}
    /\ error \in {"", "AttributeError", "TypeError", "EmbedError"}
    /\ run \in {1, 2}

\* ============================================================== properties
\* What the claims say of the input, stated on the raw csv rows.
NONE == <<"N","O","N","E">>

Excluded(r) == r.Risk = NaN \/ Upper(r.Risk) = NONE

IsHigh(r) == r.Risk # NaN /\ Lower(r.Risk) = <<"h","i","g","h">>

KeptIdx == {i \in DOMAIN csv : ~Excluded(csv[i])}

\* 1, 2, 3 for a raw severity that belongs to CRITICAL, MEDIUM, LOW; else 0
SevClass(risk) ==
    IF Upper(risk) \in {CRITICAL, HIGH} THEN 1
    ELSE IF Upper(risk) = MEDIUM THEN 2
    ELSE IF Upper(risk) = LOW THEN 3
    ELSE 0

SubHeadingTexts ==
    << <<"C","r","i","t","i","c","a","l"," Vulnerabilities">>,
       <<"M","e","d","i","u","m"," Vulnerabilities">>,
       <<"L","o","w"," Vulnerabilities">> >>

IsPicture(e) == e.kind = "picture"
IsTable(e) == e.kind = "table"
IsHeading(e, style) == e.kind = "paragraph" /\ e.style = style

Positions(style) == {p \in DOMAIN doc : IsHeading(doc[p], style)}
Tables == {p \in DOMAIN doc : IsTable(doc[p])}
Pictures == {p \in DOMAIN doc : IsPicture(doc[p])}

Max(S) == CHOOSE x \in S : \A y \in S : y <= x
Min(S) == CHOOSE x \in S : \A y \in S : x <= y

\* The position of the last heading of a style before position p, 0 if none.
LastBefore(style, p) ==
    LET S == {q \in Positions(style) : q < p} IN IF S = {} THEN 0 ELSE Max(S)

\* Every dict appended to a bucket of grouped.
AllVulns ==
    UNION { UNION { { grouped[i].val[j].val[k] : k \in DOMAIN grouped[i].val[j].val }
                    : j \in DOMAIN grouped[i].val }
            : i \in DOMAIN grouped }

\* A run has ended: it saved the report or an error propagated out of it.
\* The frame and the grouping are assigned once and the document only grows,
\* so what a run holds when it ends is all it ever held.
Ended == pc \in {"done", "aborted"}

\* C1: after normalization every kept finding (in the frame, in the grouping
\* and so in what the charts receive) has a severity in {CRITICAL, MEDIUM, LOW}.
C1_KeptSeverityInSet ==
    /\ \A i \in DOMAIN df : df[i].Risk \in {CRITICAL, MEDIUM, LOW}
    /\ \A v \in AllVulns : v.risk \in {CRITICAL, MEDIUM, LOW}

\* C2: for every chart (global or per host) the counts of CRITICAL, MEDIUM
\* and LOW sum to the number of findings of the frame the chart was drawn from.
C2_ChartCountsSum ==
    \A p \in Pictures :
        doc[p].counts[1] + doc[p].counts[2] + doc[p].counts[3] = doc[p].n

\* C3: after a chart-embedding step has ended, by returning or by raising,
\* its transient image file does not exist.
C3_ChartFileReleased == files = {}

\* C4: when a run has ended, a row whose severity is missing or is "none" in
\* any letter case is not in the frame, not in the grouping, in no finding
\* block, and in no chart count (a chart counts no more than the rows of its
\* scope that are not excluded).
C4_ExcludedRowsAbsent ==
    Ended =>
    /\ \A i \in DOMAIN csv : Excluded(csv[i]) =>
        /\ \A j \in DOMAIN df : df[j].idx # i
        /\ \A v \in AllVulns : v.idx # i
        /\ \A p \in Tables : doc[p].idx # i
    /\ \A p \in Pictures :
        doc[p].counts[1] + doc[p].counts[2] + doc[p].counts[3]
            <= Cardinality({i \in KeptIdx :
                    doc[p].scope = GlobalScope \/ csv[i].Host = doc[p].scope})

\* An excluded "none" row shares its host with a kept row, and the report
\* with that host's chart and block was saved.
C4_Witness ==
    /\ pc = "done"
    /\ \E i, j \in DOMAIN csv :
        /\ csv[i].Risk # NaN /\ Excluded(csv[i]) /\ csv[i].Risk # none
        /\ ~Excluded(csv[j]) /\ csv[i].Host = csv[j].Host
        /\ \E p \in Tables : doc[p].idx = j
        /\ \E p \in Pictures : doc[p].scope = csv[j].Host

\* C5: a row with an empty Description or Solution (Host and Name present)
\* does not abort the run with an error of its own: no TypeError is raised.
C5_MissingOptionalTolerated ==
    (\A i \in DOMAIN csv : csv[i].Host # NaN /\ csv[i].Name # NaN)
        => error # "TypeError"

\* The hosts of the kept rows, ranked by the first kept row of each.
KeptHosts == {csv[i].Host : i \in KeptIdx}

FirstIdx(h) == Min({i \in KeptIdx : csv[i].Host = h})

Rank(h) == Cardinality({g \in KeptHosts : FirstIdx(g) < FirstIdx(h)}) + 1

HostHeadings == SelectSeq(doc, LAMBDA e : IsHeading(e, "Heading 2"))

SubHeadingClass(e) == CHOOSE k \in 1..3 : e.text = SubHeadingTexts[k]

C7_StableGrouping ==
    Ended =>
    /\ \A i \in DOMAIN grouped : \A j \in DOMAIN grouped[i].val :
        LET vulns == grouped[i].val[j].val
        IN  \A a, b \in DOMAIN vulns : a < b => vulns[a].idx < vulns[b].idx
    /\ \A p, q \in Tables :
        /\ p < q
        /\ csv[doc[p].idx].Host = csv[doc[q].idx].Host
        /\ SevClass(csv[doc[p].idx].Risk) = SevClass(csv[doc[q].idx].Risk)
        => doc[p].idx < doc[q].idx

\* A saved report with two blocks of one host and severity.
C7_Witness ==
    /\ pc = "done"
    /\ \E p, q \in Tables :
        /\ p < q
        /\ csv[doc[p].idx].Host = csv[doc[q].idx].Host
        /\ SevClass(csv[doc[p].idx].Risk) = SevClass(csv[doc[q].idx].Risk)
        /\ csv[doc[p].idx].Risk # csv[doc[q].idx].Risk

\* C8: when a run has ended, a row whose raw severity is "high" in any
\* letter case is in the frame with severity CRITICAL, grouped under CRITICAL
\* only, and any block of it is under the Critical sub-heading with the risk
\* label CRITICAL; no finding has severity HIGH.
C8_HighIsCritical ==
    Ended =>
    /\ \A i \in DOMAIN csv : IsHigh(csv[i]) =>
        /\ \E j \in DOMAIN df : df[j].idx = i /\ df[j].Risk = CRITICAL
        /\ \E v \in AllVulns : v.idx = i /\ v.risk = CRITICAL
        /\ \A a \in DOMAIN grouped : \A b \in DOMAIN grouped[a].val :
            \A k \in DOMAIN grouped[a].val[b].val :
                grouped[a].val[b].val[k].idx = i => grouped[a].val[b].key = CRITICAL
        /\ \A t \in Tables : doc[t].idx = i =>
            /\ doc[LastBefore("Heading 3", t)].text = SubHeadingTexts[1]
            /\ doc[t].color = "FF0000"
            /\ Len(doc[t].cells) >= 2 => doc[t].cells[2] = <<"Risk: ">> \o CRITICAL
    /\ \A j \in DOMAIN df : df[j].Risk # HIGH
    /\ \A v \in AllVulns : v.risk # HIGH

\* A saved report with the block of a row whose raw severity was "High".
C8_Witness ==
    /\ pc = "done"
    /\ \E t \in Tables : IsHigh(csv[doc[t].idx]) /\ csv[doc[t].idx].Risk # HIGH

C10_Conservation ==
    pc = "done" =>
        /\ Cardinality(Tables) = logged
        /\ \A i \in DOMAIN df : Cardinality({t \in Tables : doc[t].idx = df[i].idx}) = 1
        /\ \A p \in Positions("Heading 2") :
            \E t \in Tables : LastBefore("Heading 2", t) = p

====
